---- MODULE Spec2Model ----
(***************************************************************************)
(* Model of the procedural layout core of blenpc / mf_v5:                  *)
(*   - mf_v5/windows.py : carve_windows, _split_horizontal, _split_vertical*)
(*   - mf_v5/stairs.py  : generate_stairwell                               *)
(*   - mf_v5/slabs.py   : build_floor_ceiling_slabs                        *)
(*   - atoms/wall.py    : make_rng, golden_split, create_engineered_wall   *)
(*   - blenpc.py, run_command.py : the generate / batch requests and run() *)
(*   - mf_v5/floorplan.py : generate_floorplan, after the specification    *)
(*                                                                         *)
(* Reals are modelled by integers in fixed units, so that every sum,       *)
(* difference and comparison of the code is computed exactly.              *)
(*   Carving: one unit is EPSILON / 2. Opening widths are drawn even, so   *)
(*            that width / 2 is exact.                                     *)
(*   Slabs and stairs: one unit is 2.5 cm (0.25 m grid = 10 units);        *)
(*            coordinates are drawn even, so that (min + max) / 2 is exact.*)
(* An optional value (None or a value) is the empty tuple or a 1-tuple.    *)
(***************************************************************************)
EXTENDS Integers, Sequences, FiniteSets, TLC

VARIABLES
    wall_segments,  \* carve_windows input: room_id -> list of WallSegment
    openings,       \* carve_windows input: list of WindowOpening
    carved,         \* <<>> before the call, <<result>> after carve_windows
    door,           \* <<>> or <<[seg, center, width]>>: the door handed to _split_*
    door_pieces,    \* the list _split_horizontal / _split_vertical returned
    footprint,      \* the building: [width, depth, corridor_width]
    total_floors,   \* number of floors N of the building
    corridor,       \* Optional[Rect] handed to generate_stairwell
    stairwell,      \* <<>> before the call, <<Optional[Stairwell]>> after generate_stairwell
    floor_rooms,    \* floor index -> the rooms handed to build_floor_ceiling_slabs
    slabs,          \* floor index -> <<>> before the call, <<List[Slab]>> after it
    length,         \* the length handed to golden_split
    generators,     \* the random.Random objects: object id -> generator state
    rng,            \* "A", "B" -> <<>> or <<[seed, subsystem, id]>>, a make_rng result
    draws,          \* "A", "B" -> the values rng.random() returned, in order
    out,            \* "A", "B" -> the values golden_split returned, in order
    slots,          \* <<>> before the call, <<slots>> after create_engineered_wall
    sent,           \* the requests written for the runner, in order: [by, data]
    answers,        \* the result run() wrote for each request of sent
    inventory,      \* the asset records registered by the runner
    plan_args,      \* the arguments handed to generate_floorplan
    plan            \* <<>> before the call, <<result>> after generate_floorplan

carve_vars == <<wall_segments, openings, carved, door, door_pieces>>
build_vars == <<footprint, total_floors, corridor, stairwell, floor_rooms, slabs>>
rng_vars == <<length, generators, rng, draws, out, slots>>
cli_vars == <<sent, answers, inventory>>
plan_vars == <<plan_args, plan>>
vars == <<carve_vars, build_vars, rng_vars, cli_vars, plan_vars>>

\* the parts of the state a specification does not exercise stay at these values
CarveIdle ==
    /\ wall_segments = <<>>
    /\ openings = <<>>
    /\ carved = <<>>
    /\ door = <<>>
    /\ door_pieces = <<>>

BuildIdle ==
    /\ footprint = <<>>
    /\ total_floors = 0
    /\ corridor = <<>>
    /\ stairwell = <<>>
    /\ floor_rooms = <<>>
    /\ slabs = <<>>

CliIdle ==
    /\ sent = <<>>
    /\ answers = <<>>
    /\ inventory = {}

PlanIdle ==
    /\ plan_args = <<>>
    /\ plan = <<>>

RngIdle ==
    /\ slots = <<>>
    /\ length = 0
    /\ generators = <<>>
    /\ rng = <<>>
    /\ draws = <<>>
    /\ out = <<>>

-----------------------------------------------------------------------------
(* Bounds of the model *)

MaxWallLen == 12
MaxOpenings == 2

(* Program constants *)

\* mf_v5.config.EPSILON, in carving units (one unit = EPSILON / 2)
EPSILON == 2

-----------------------------------------------------------------------------
(* Helpers *)

Min(a, b) == IF a < b THEN a ELSE b
Max(a, b) == IF a > b THEN a ELSE b
Abs(a) == IF a < 0 THEN -a ELSE a

RECURSIVE SumSeq(_)
SumSeq(s) == IF s = <<>> THEN 0 ELSE Head(s) + SumSeq(Tail(s))

RECURSIVE FlatMap(_, _)
FlatMap(F(_), s) == IF s = <<>> THEN <<>> ELSE F(Head(s)) \o FlatMap(F, Tail(s))

-----------------------------------------------------------------------------
(* mf_v5.datamodel.WallSegment and mf_v5.windows.WindowOpening *)

NoOpening == <<>>

WallSegment(room_id, side, x1, y1, x2, y2, height, thickness) ==
    [room_id |-> room_id, side |-> side, x1 |-> x1, y1 |-> y1, x2 |-> x2, y2 |-> y2,
     height |-> height, thickness |-> thickness, window_opening |-> NoOpening]

WindowOpening(room_id, side, center, width) ==
    [room_id |-> room_id, side |-> side, center |-> center, width |-> width]

is_horizontal(side) == side \in {"north", "south"}

\* sorted((p.x1, p.x2)) or sorted((p.y1, p.y2)): the extent along the wall
p_min(p) == IF is_horizontal(p.side) THEN Min(p.x1, p.x2) ELSE Min(p.y1, p.y2)
p_max(p) == IF is_horizontal(p.side) THEN Max(p.x1, p.x2) ELSE Max(p.y1, p.y2)
SegLen(p) == p_max(p) - p_min(p)

-----------------------------------------------------------------------------
(* _split_horizontal, _split_vertical: the door split, no piece over the gap *)

\* the right piece begins at the door centre instead of the door's right edge
split_horizontal_from_centre(seg, cx, width) ==
    LET left_end == cx - width \div 2
        x_min == Min(seg.x1, seg.x2)
        x_max == Max(seg.x1, seg.x2)
    IN  (IF left_end - x_min > EPSILON
         THEN <<WallSegment(seg.room_id, seg.side, x_min, seg.y1, left_end, seg.y2,
                            seg.height, seg.thickness)>>
         ELSE <<>>)
        \o
        (IF x_max - cx > EPSILON
         THEN <<WallSegment(seg.room_id, seg.side, cx, seg.y1, x_max, seg.y2,
                            seg.height, seg.thickness)>>
         ELSE <<>>)

split_horizontal(seg, cx, width) ==
    LET left_end == cx - width \div 2
        right_start == cx + width \div 2
        x_min == Min(seg.x1, seg.x2)
        x_max == Max(seg.x1, seg.x2)
    IN  (IF left_end - x_min > EPSILON
         THEN <<WallSegment(seg.room_id, seg.side, x_min, seg.y1, left_end, seg.y2,
                            seg.height, seg.thickness)>>
         ELSE <<>>)
        \o
        (IF x_max - right_start > EPSILON
         THEN <<WallSegment(seg.room_id, seg.side, right_start, seg.y1, x_max, seg.y2,
                            seg.height, seg.thickness)>>
         ELSE <<>>)

split_vertical(seg, cy, width) ==
    LET bottom_end == cy - width \div 2
        top_start == cy + width \div 2
        y_min == Min(seg.y1, seg.y2)
        y_max == Max(seg.y1, seg.y2)
    IN  (IF bottom_end - y_min > EPSILON
         THEN <<WallSegment(seg.room_id, seg.side, seg.x1, y_min, seg.x2, bottom_end,
                            seg.height, seg.thickness)>>
         ELSE <<>>)
        \o
        (IF y_max - top_start > EPSILON
         THEN <<WallSegment(seg.room_id, seg.side, seg.x1, top_start, seg.x2, y_max,
                            seg.height, seg.thickness)>>
         ELSE <<>>)

-----------------------------------------------------------------------------
(* carve_windows *)

\* a plain piece of p spanning [a, b] along the wall: the WallSegment(...) calls of
\* windows.py:104, 107, 113 (horizontal) and 119, 121, 126 (vertical)
PieceOf(p, horiz, a, b) ==
    IF horiz
    THEN WallSegment(p.room_id, p.side, a, p.y1, b, p.y2, p.height, p.thickness)
    ELSE WallSegment(p.room_id, p.side, p.x1, a, p.x2, b, p.height, p.thickness)

\* windows.py:103-104 and 118-119: the left (bottom) remainder, kept if longer than EPSILON
LeftRemainder(p, horiz, lo, left_end) ==
    IF left_end - lo > EPSILON THEN <<PieceOf(p, horiz, lo, left_end)>> ELSE <<>>

\* windows.py:107-110 and 121-123: the middle piece, tagged with the opening
WindowPiece(p, horiz, left_end, right_start, opening) ==
    [PieceOf(p, horiz, left_end, right_start) EXCEPT !.window_opening = <<opening>>]

RightRemainderDropped(p, horiz, right_start, hi) == <<>>

\* windows.py:112-113 and 125-126: the right (top) remainder, kept if longer than EPSILON
RightRemainder(p, horiz, right_start, hi) ==
    IF hi - right_start > EPSILON THEN <<PieceOf(p, horiz, right_start, hi)>> ELSE <<>>

\* a piece the opening does not split is rebuilt from its sorted extent, untagged
CarvePieceRebuilt(seg, p, opening) ==
    LET horiz == is_horizontal(seg.side)
        coord == IF horiz THEN opening.center[1] ELSE opening.center[2]
        lo == IF horiz THEN Min(p.x1, p.x2) ELSE Min(p.y1, p.y2)
        hi == IF horiz THEN Max(p.x1, p.x2) ELSE Max(p.y1, p.y2)
        left_end == coord - opening.width \div 2
        right_start == coord + opening.width \div 2
    IN  IF coord > lo + EPSILON /\ coord < hi - EPSILON
        THEN LeftRemainder(p, horiz, lo, left_end)
             \o <<WindowPiece(p, horiz, left_end, right_start, opening)>>
             \o RightRemainder(p, horiz, right_start, hi)
        ELSE <<PieceOf(p, horiz, lo, hi)>>

\* windows.py:93-128, the body of the loop over current_pieces for one piece p
CarvePiece(seg, p, opening) ==
    LET horiz == is_horizontal(seg.side)
        coord == IF horiz THEN opening.center[1] ELSE opening.center[2]
        lo == IF horiz THEN Min(p.x1, p.x2) ELSE Min(p.y1, p.y2)
        hi == IF horiz THEN Max(p.x1, p.x2) ELSE Max(p.y1, p.y2)
        left_end == coord - opening.width \div 2
        right_start == coord + opening.width \div 2
    IN  IF coord > lo + EPSILON /\ coord < hi - EPSILON
        THEN LeftRemainder(p, horiz, lo, left_end)
             \o <<WindowPiece(p, horiz, left_end, right_start, opening)>>
             \o RightRemainder(p, horiz, right_start, hi)
        ELSE <<p>>

\* the opening is tried on the first piece of the list only
ApplyOpeningToFirstPiece(seg, current_pieces, opening) ==
    IF current_pieces = <<>> THEN <<>>
    ELSE CarvePiece(seg, Head(current_pieces), opening) \o Tail(current_pieces)

\* windows.py:90-129, one opening applied to the current piece list
ApplyOpening(seg, current_pieces, opening) ==
    LET F(p) == CarvePiece(seg, p, opening)
    IN  FlatMap(F, current_pieces)

\* windows.py:88-130, all openings of the room-side applied in list order
RECURSIVE CarveSegment(_, _, _)
CarveSegment(seg, current_pieces, room_openings) ==
    IF room_openings = <<>> THEN current_pieces
    ELSE CarveSegment(seg, ApplyOpening(seg, current_pieces, Head(room_openings)),
                      Tail(room_openings))

\* windows.py:74-76 and 83, the openings of one (room_id, side) in list order
openings_by_room_side(ops, room_id, side) ==
    LET Keep(w) == w.room_id = room_id /\ w.side = side
    IN  SelectSeq(ops, Keep)

carve_windows(ws, ops) ==
    [room_id \in DOMAIN ws |->
        LET F(seg) ==
                LET room_openings == openings_by_room_side(ops, room_id, seg.side)
                IN  IF room_openings = <<>> THEN <<seg>>
                    ELSE CarveSegment(seg, <<seg>>, room_openings)
        IN  FlatMap(F, ws[room_id])]

-----------------------------------------------------------------------------
(* Inputs of the carving specification *)

\* Room 1 is the square (0, 0)-(L, L); its north and east walls are carved.
\* Room 2 has one south wall and never receives an opening.
NorthWall(L, flip) ==
    IF flip THEN WallSegment(1, "north", L, L, 0, L, 120, 8)
    ELSE WallSegment(1, "north", 0, L, L, L, 120, 8)

EastWall(L, flip) ==
    IF flip THEN WallSegment(1, "east", L, L, L, 0, 120, 8)
    ELSE WallSegment(1, "east", L, 0, L, L, 120, 8)

SouthWall(L) == WallSegment(2, "south", L, 0, 2 * L, 0, 120, 8)

WallInputs ==
    { (1 :> <<NorthWall(MaxWallLen, flip), EastWall(MaxWallLen, flip)>>)
        @@ (2 :> <<SouthWall(MaxWallLen)>>) : flip \in BOOLEAN }

Centres == -1 .. MaxWallLen + 1
Widths == {2, 6}

\* an opening on the north wall has its centre at (c, L), on the east wall at (L, c)
OpeningPool ==
    { WindowOpening(1, "north", <<c, MaxWallLen>>, w) : c \in Centres, w \in Widths }
    \cup
    { WindowOpening(1, "east", <<MaxWallLen, c>>, w) : c \in Centres, w \in Widths }

RECURSIVE SeqsUpTo(_, _)
SeqsUpTo(S, n) ==
    IF n = 0 THEN {<<>>}
    ELSE LET shorter == SeqsUpTo(S, n - 1)
         IN  shorter \cup { Append(s, x) : s \in shorter, x \in S }

CarveInit ==
    /\ wall_segments \in WallInputs
    /\ openings \in SeqsUpTo(OpeningPool, MaxOpenings)
    /\ carved = <<>>
    /\ door = <<>>
    /\ door_pieces = <<>>
    /\ BuildIdle
    /\ RngIdle
    /\ CliIdle
    /\ PlanIdle

-----------------------------------------------------------------------------
(* Actions of the carving specification *)

CarveWindows ==
    /\ carved = <<>>
    /\ carved' = <<carve_windows(wall_segments, openings)>>
    /\ UNCHANGED <<cli_vars, plan_vars, wall_segments, openings, door, door_pieces, build_vars, rng_vars>>

\* a door of width w centred at c on a wall of room 1, split by the helper of its axis
SplitDoor ==
    /\ door = <<>>
    /\ \E i \in 1 .. Len(wall_segments[1]), c \in Centres, w \in Widths :
          LET seg == wall_segments[1][i]
          IN  /\ door' = <<[seg |-> seg, center |-> c, width |-> w]>>
              /\ door_pieces' = IF is_horizontal(seg.side)
                                THEN split_horizontal(seg, c, w)
                                ELSE split_vertical(seg, c, w)
    /\ UNCHANGED <<cli_vars, plan_vars, wall_segments, openings, carved, build_vars, rng_vars>>

CarveNext == CarveWindows

SpecCarve == CarveInit /\ [][CarveNext]_vars

\* the door split is exercised on walls that carry no window
DoorInit ==
    /\ wall_segments \in WallInputs
    /\ openings = <<>>
    /\ carved = <<>>
    /\ door = <<>>
    /\ door_pieces = <<>>
    /\ BuildIdle
    /\ RngIdle
    /\ CliIdle
    /\ PlanIdle

DoorNext == SplitDoor

SpecDoor == DoorInit /\ [][DoorNext]_vars

-----------------------------------------------------------------------------
(* Slabs and stairwell: lengths in units of 2.5 cm *)

MaxFloors == 3

\* atoms/wall.py GRID_UNIT = 0.25 m (test_math_engine.py:43-45)
GRID_UNIT == 10
\* stairs.py:29-30, stair_width = 2.0 m and stair_depth = 4.0 m
STAIR_WIDTH == 80
STAIR_DEPTH == 160
\* the width the comment of stairs.py:28 gives, 2.5 m
COMMENT_STAIR_WIDTH == 100
\* the corridor width of the floorplan generator, 1.8 m (test_logic.py:23)
CORRIDOR_WIDTH == 72
\* mf_v5.config values imported by slabs.py:8; 3.0 m and 0.2 m stand for them
STORY_HEIGHT == 120
CEILING_THICKNESS == 8
FLOOR_THICKNESS == 8

\* Python's round(num / den) for den > 0: to the nearest integer, ties to even
round_half_even(num, den) ==
    LET q == num \div den
        r == num % den
    IN  IF 2 * r < den THEN q
        ELSE IF 2 * r > den THEN q + 1
        ELSE IF q % 2 = 0 THEN q ELSE q + 1

\* round(value / GRID_UNIT) * GRID_UNIT
snap(value) == round_half_even(value, GRID_UNIT) * GRID_UNIT

Rect(min_x, min_y, max_x, max_y) ==
    [min_x |-> min_x, min_y |-> min_y, max_x |-> max_x, max_y |-> max_y]

Room(id, rect) == [id |-> id, rect |-> rect]

Stairwell(rect, floor_from, floor_to) ==
    [rect |-> rect, floor_from |-> floor_from, floor_to |-> floor_to,
     stair_type |-> "straight"]

Slab(rect, z, thickness, kind, hole_rect) ==
    [rect |-> rect, z |-> z, thickness |-> thickness, kind |-> kind,
     hole_rect |-> hole_rect]

\* the stair is as wide as the comment says, 2.5 m
generate_stairwell_comment_width(rooms, corridor_rect) ==
    IF corridor_rect = <<>> THEN <<>>
    ELSE LET c == corridor_rect[1]
             cx == (c.min_x + c.max_x) \div 2
         IN  <<Stairwell(Rect(cx - COMMENT_STAIR_WIDTH \div 2, c.max_y - STAIR_DEPTH,
                              cx + COMMENT_STAIR_WIDTH \div 2, c.max_y), 0, 99)>>

\* stairs.py:19-42; the result is Optional[Stairwell]
generate_stairwell(rooms, corridor_rect) ==
    IF corridor_rect = <<>> THEN <<>>
    ELSE LET c == corridor_rect[1]
             cx == (c.min_x + c.max_x) \div 2
         IN  <<Stairwell(Rect(cx - STAIR_WIDTH \div 2, c.max_y - STAIR_DEPTH,
                              cx + STAIR_WIDTH \div 2, c.max_y), 0, 99)>>

MinOf(S) == CHOOSE x \in S : \A y \in S : x <= y
MaxOf(S) == CHOOSE x \in S : \A y \in S : x >= y

\* the ceiling slab is built without the stairwell hole
build_floor_ceiling_slabs_solid_ceiling(rooms, floor_index, stairwell_rect) ==
    IF rooms = <<>> THEN <<>>
    ELSE LET idx == 1 .. Len(rooms)
             footprint_rect == Rect(MinOf({rooms[i].rect.min_x : i \in idx}),
                                    MinOf({rooms[i].rect.min_y : i \in idx}),
                                    MaxOf({rooms[i].rect.max_x : i \in idx}),
                                    MaxOf({rooms[i].rect.max_y : i \in idx}))
             floor_z == floor_index * STORY_HEIGHT
             ceil_z == floor_z + STORY_HEIGHT - CEILING_THICKNESS
         IN  << Slab(footprint_rect, floor_z, FLOOR_THICKNESS, "floor", stairwell_rect),
                Slab(footprint_rect, ceil_z, CEILING_THICKNESS, "ceiling", <<>>) >>

\* the ceiling is put a full story above the floor, its thickness not deducted
build_floor_ceiling_slabs_high_ceiling(rooms, floor_index, stairwell_rect) ==
    IF rooms = <<>> THEN <<>>
    ELSE LET idx == 1 .. Len(rooms)
             footprint_rect == Rect(MinOf({rooms[i].rect.min_x : i \in idx}),
                                    MinOf({rooms[i].rect.min_y : i \in idx}),
                                    MaxOf({rooms[i].rect.max_x : i \in idx}),
                                    MaxOf({rooms[i].rect.max_y : i \in idx}))
             floor_z == floor_index * STORY_HEIGHT
             ceil_z == floor_z + STORY_HEIGHT
         IN  << Slab(footprint_rect, floor_z, FLOOR_THICKNESS, "floor", stairwell_rect),
                Slab(footprint_rect, ceil_z, CEILING_THICKNESS, "ceiling", stairwell_rect) >>

\* slabs.py:19-36; stairwell_rect is Optional[Rect]
build_floor_ceiling_slabs(rooms, floor_index, stairwell_rect) ==
    IF rooms = <<>> THEN <<>>
    ELSE LET idx == 1 .. Len(rooms)
             footprint_rect == Rect(MinOf({rooms[i].rect.min_x : i \in idx}),
                                    MinOf({rooms[i].rect.min_y : i \in idx}),
                                    MaxOf({rooms[i].rect.max_x : i \in idx}),
                                    MaxOf({rooms[i].rect.max_y : i \in idx}))
             floor_z == floor_index * STORY_HEIGHT
             ceil_z == floor_z + STORY_HEIGHT - CEILING_THICKNESS
         IN  << Slab(footprint_rect, floor_z, FLOOR_THICKNESS, "floor", stairwell_rect),
                Slab(footprint_rect, ceil_z, CEILING_THICKNESS, "ceiling", stairwell_rect) >>

-----------------------------------------------------------------------------
(* Inputs of the building specification *)

\* footprints of 12 m and 20 m by 3 m and 16 m; a corridor of the floorplan
\* generator's 1.8 m or of 2.5 m
Footprints ==
    [width : {480, 800}, depth : {120, 640}, corridor_width : {CORRIDOR_WIDTH, 100}]

\* the corridor of a floorplan: a spine over the full depth, its min_x snapped
CorridorOf(fp) ==
    LET c_min == snap((fp.width - fp.corridor_width) \div 2)
    IN  Rect(c_min, 0, c_min + fp.corridor_width, fp.depth)

\* room collections of one floor: none; without a corridor one room over the whole
\* footprint; with a corridor the two zones beside it, the left one whole or split
RoomCollections(fp, corr) ==
    IF corr = <<>>
    THEN { <<>>, <<Room(0, Rect(0, 0, fp.width, fp.depth))>> }
    ELSE LET c == corr[1]
             half == fp.depth \div 2
             right == Rect(c.max_x, 0, fp.width, fp.depth)
         IN  { <<>>,
               <<Room(0, Rect(0, 0, c.min_x, fp.depth)), Room(1, right)>>,
               <<Room(0, Rect(0, 0, c.min_x, half)),
                 Room(1, Rect(0, half, c.min_x, fp.depth)), Room(2, right)>> }

Floors == 0 .. total_floors - 1

BuildInit ==
    /\ CarveIdle
    /\ RngIdle
    /\ CliIdle
    /\ PlanIdle
    /\ footprint \in Footprints
    /\ total_floors \in 1 .. MaxFloors
    /\ corridor \in {<<>>, <<CorridorOf(footprint)>>}
    /\ stairwell = <<>>
    /\ floor_rooms = [f \in Floors |-> <<>>]
    /\ slabs = [f \in Floors |-> <<>>]

-----------------------------------------------------------------------------
(* Actions of the building specification *)

\* the stairwell is placed once per building, from the corridor
GenerateStairwell ==
    /\ stairwell = <<>>
    /\ \E rooms \in RoomCollections(footprint, corridor) :
          stairwell' = <<generate_stairwell(rooms, corridor)>>
    /\ UNCHANGED <<cli_vars, plan_vars, carve_vars, rng_vars, footprint, total_floors, corridor, floor_rooms, slabs>>

\* the rectangle handed to every floor's slab builder: the stairwell's, or None
StairwellRect == IF stairwell[1] = <<>> THEN <<>> ELSE <<stairwell[1][1].rect>>

\* the slabs of one floor, floors taken in any order
BuildFloorCeilingSlabs(f) ==
    /\ stairwell # <<>>
    /\ slabs[f] = <<>>
    /\ \E rooms \in RoomCollections(footprint, corridor) :
          /\ floor_rooms' = [floor_rooms EXCEPT ![f] = rooms]
          /\ slabs' = [slabs EXCEPT
                          ![f] = <<build_floor_ceiling_slabs(rooms, f, StairwellRect)>>]
    /\ UNCHANGED <<cli_vars, plan_vars, carve_vars, rng_vars, footprint, total_floors, corridor, stairwell>>

BuildNext == GenerateStairwell \/ \E f \in Floors : BuildFloorCeilingSlabs(f)

SpecBuild == BuildInit /\ [][BuildNext]_vars

-----------------------------------------------------------------------------
(* make_rng and golden_split: lengths in units of 2.5 cm *)

MaxDraws == 3

\* config.PHI = (1 + sqrt(5)) / 2 as the ratio of Fibonacci numbers 987 / 610
PHI_NUM == 987
PHI_DEN == 610
\* random.Random is modelled by a full-period congruential generator of this many
\* states; random() returns state / RNG_STATES, a value in [0, 1)
RNG_STATES == 64

Seeds == {0, 123, 456}
Subsystems == {"wall_slots", "floorplan"}

\* wall.py:13-14: sub_seed, the first 8 bytes of sha256(f"{seed}:{subsystem}"); a
\* function of the pair that keeps the pairs of Seeds and Subsystems apart
sub_seed_of(seed, subsystem) ==
    (37 * (2 * seed + (IF subsystem = "wall_slots" THEN 0 ELSE 1)) + 11) % RNG_STATES

\* random.Random(sub_seed): the state of a freshly seeded generator
Seeded(sub_seed) == sub_seed % RNG_STATES

\* rng.random(): the state after the draw; the value drawn is this state / RNG_STATES
NextState(state) == (5 * state + 3) % RNG_STATES

\* the module-level generator is reseeded and returned instead of a new object
make_rng_shared(heap, seed, subsystem) ==
    [heap |-> [heap EXCEPT ![1] = Seeded(sub_seed_of(seed, subsystem))], id |-> 1]

\* wall.py:11-16: a new random.Random object, seeded from (seed, subsystem)
make_rng(heap, seed, subsystem) ==
    [heap |-> Append(heap, Seeded(sub_seed_of(seed, subsystem))), id |-> Len(heap) + 1]

\* the draw is taken from a copy of the generator, whose own state is left as it was
golden_split_copied_rng(len, state) ==
    LET r == NextState(state)
        num == len * (PHI_DEN * 25 * RNG_STATES + (r - RNG_STATES \div 2) * PHI_NUM)
        den == PHI_NUM * 25 * RNG_STATES
    IN  [state |-> state, draw |-> r,
         value |-> round_half_even(num, den * GRID_UNIT) * GRID_UNIT]

\* the quotient is cut with int() where the code rounds it
golden_split_truncated(len, state) ==
    LET r == NextState(state)
        num == len * (PHI_DEN * 25 * RNG_STATES + (r - RNG_STATES \div 2) * PHI_NUM)
        den == PHI_NUM * 25 * RNG_STATES
    IN  [state |-> r, draw |-> r,
         value |-> (num \div (den * GRID_UNIT)) * GRID_UNIT]

\* wall.py:18-27 for the generator state it is given: the draw r / RNG_STATES,
\*   final_split = length / PHI + (r / RNG_STATES - 1/2) * (4 / 100) * length
\*               = length * (PHI_DEN * 25 * RNG_STATES + (r - RNG_STATES / 2) * PHI_NUM)
\*                 / (PHI_NUM * 25 * RNG_STATES)
\* and the value round(final_split / GRID_UNIT) * GRID_UNIT
golden_split(len, state) ==
    LET r == NextState(state)
        num == len * (PHI_DEN * 25 * RNG_STATES + (r - RNG_STATES \div 2) * PHI_NUM)
        den == PHI_NUM * 25 * RNG_STATES
    IN  [state |-> r, draw |-> r,
         value |-> round_half_even(num, den * GRID_UNIT) * GRID_UNIT]

\* wall.py:37-88: the generator made for the wall, the one draw golden_split takes
\* from it, and the slot list; pos is [primary_slot_x, 0, 1.2], size is [1.0, 1.2]
create_engineered_wall(heap, len, seed) ==
    LET made == make_rng(heap, seed, "wall_slots")
        split == golden_split(len, made.heap[made.id])
    IN  [heap |-> [made.heap EXCEPT ![made.id] = split.state],
         slots |-> <<[id |-> "main_opening", type |-> "window_opening",
                      pos |-> <<split.value, 0, 48>>, size |-> <<40, 48>>]>>]

\* lengths of 4.0 m (the default of run_command.py:39) and 5.0 m (test_math_engine.py:15)
Lengths == {160, 200}

Names == {"A", "B"}

\* generators[1] is the module-level generator of the random module
RngInit ==
    /\ CarveIdle
    /\ BuildIdle
    /\ CliIdle
    /\ PlanIdle
    /\ length \in Lengths
    /\ generators = <<0>>
    /\ rng = [g \in Names |-> <<>>]
    /\ draws = [g \in Names |-> <<>>]
    /\ out = [g \in Names |-> <<>>]
    /\ slots = <<>>

\* g = make_rng(seed, subsystem)
MakeRng(g) ==
    /\ rng[g] = <<>>
    /\ \E seed \in Seeds, subsystem \in Subsystems :
          LET made == make_rng(generators, seed, subsystem)
          IN  /\ generators' = made.heap
              /\ rng' = [rng EXCEPT ![g] = <<[seed |-> seed, subsystem |-> subsystem,
                                              id |-> made.id]>>]
    /\ UNCHANGED <<cli_vars, plan_vars, carve_vars, build_vars, length, draws, out, slots>>

\* golden_split(length, g)
GoldenSplit(g) ==
    /\ rng[g] # <<>>
    /\ Len(out[g]) < MaxDraws
    /\ LET id == rng[g][1].id
           res == golden_split(length, generators[id])
       IN  /\ generators' = [generators EXCEPT ![id] = res.state]
           /\ draws' = [draws EXCEPT ![g] = Append(@, res.draw)]
           /\ out' = [out EXCEPT ![g] = Append(@, res.value)]
    /\ UNCHANGED <<cli_vars, plan_vars, carve_vars, build_vars, length, rng, slots>>

\* obj, slots = create_engineered_wall(name, length, seed)
CreateEngineeredWall ==
    /\ slots = <<>>
    /\ \E seed \in Seeds :
          LET made == create_engineered_wall(generators, length, seed)
          IN  /\ generators' = made.heap
              /\ slots' = <<made.slots>>
    /\ UNCHANGED <<cli_vars, plan_vars, carve_vars, build_vars, length, rng, draws, out>>

RngNext ==
    \/ \E g \in Names : MakeRng(g)
    \/ \E g \in Names : GoldenSplit(g)
    \/ CreateEngineeredWall

SpecRng == RngInit /\ [][RngNext]_vars

-----------------------------------------------------------------------------
(* Measures of a carved room-side *)

\* the room-sides that have a wall segment (one segment per room-side in WallInputs)
RoomSides ==
    UNION { { <<r, wall_segments[r][i].side>> : i \in 1 .. Len(wall_segments[r]) } :
            r \in DOMAIN wall_segments }

Parent(rs) ==
    LET i == CHOOSE i \in 1 .. Len(wall_segments[rs[1]]) :
                 wall_segments[rs[1]][i].side = rs[2]
    IN  wall_segments[rs[1]][i]

SideOpenings(rs) == openings_by_room_side(openings, rs[1], rs[2])

SidePieces(rs) ==
    LET Keep(p) == p.side = rs[2]
    IN  SelectSeq(carved[1][rs[1]], Keep)

Tagged(ps) == LET Keep(p) == p.window_opening # NoOpening IN SelectSeq(ps, Keep)
Untagged(ps) == LET Keep(p) == p.window_opening = NoOpening IN SelectSeq(ps, Keep)

TotalLen(ps) == SumSeq([i \in 1 .. Len(ps) |-> SegLen(ps[i])])
TotalWidth(ops) == SumSeq([i \in 1 .. Len(ops) |-> ops[i].width])

\* the extent an opening asks for along its wall
OpCoord(op) == IF is_horizontal(op.side) THEN op.center[1] ELSE op.center[2]
OpLo(op) == OpCoord(op) - op.width \div 2
OpHi(op) == OpCoord(op) + op.width \div 2

\* every opening of the side lies inside the wall and no two of them overlap
InteriorDisjoint(seg, ops) ==
    /\ \A i \in 1 .. Len(ops) : OpLo(ops[i]) >= p_min(seg) /\ OpHi(ops[i]) <= p_max(seg)
    /\ \A i, j \in 1 .. Len(ops) :
          i # j => Min(OpHi(ops[i]), OpHi(ops[j])) <= Max(OpLo(ops[i]), OpLo(ops[j]))

Collinear(seg, p) ==
    IF is_horizontal(seg.side) THEN p.y1 = seg.y1 /\ p.y2 = seg.y2
    ELSE p.x1 = seg.x1 /\ p.x2 = seg.x2

InsideParent(seg, p) ==
    p_min(p) >= p_min(seg) - EPSILON /\ p_max(p) <= p_max(seg) + EPSILON

OverlapLen(p, q) == Min(p_max(p), p_max(q)) - Max(p_min(p), p_min(q))

\* the unit cell [c, c + 1] is covered by a piece
CellCovered(ps, c) == \E i \in 1 .. Len(ps) : p_min(ps[i]) <= c /\ c + 1 <= p_max(ps[i])

\* no stretch of the parent longer than EPSILON is left uncovered
NoGap(seg, ps) ==
    \A x \in p_min(seg) .. p_max(seg) - EPSILON - 1 :
        \E c \in x .. x + EPSILON : CellCovered(ps, c)

-----------------------------------------------------------------------------
(* Claims *)

\* C1: for every wall segment and every list of openings (any centres, widths and
\* order, overlapping or reaching past the ends), the pieces of a room-side are
\* collinear with the parent, inside its extent, pairwise non-overlapping and cover
\* it without a gap, all within EPSILON.
C1_PiecesPartitionParent ==
    carved # <<>> =>
        \A rs \in RoomSides :
            LET seg == Parent(rs)
                ps == SidePieces(rs)
            IN  /\ \A i \in 1 .. Len(ps) : Collinear(seg, ps[i]) /\ InsideParent(seg, ps[i])
                /\ \A i, j \in 1 .. Len(ps) : i # j => OverlapLen(ps[i], ps[j]) <= EPSILON
                /\ NoGap(seg, ps)

\* C2 (as stated): for openings each fully interior to the segment and mutually
\* non-overlapping, the lengths of all pieces returned for the side sum to
\* L - sum of the opening widths, within EPSILON.
C2_AllPiecesSumToRemainder ==
    carved # <<>> =>
        \A rs \in RoomSides :
            LET seg == Parent(rs)
                ops == SideOpenings(rs)
            IN  InteriorDisjoint(seg, ops) =>
                    Abs(TotalLen(SidePieces(rs)) - (SegLen(seg) - TotalWidth(ops))) <= EPSILON

\* C2 (amended): for such openings the pieces that carry no window tag sum to
\* L - sum of the opening widths, and all pieces together (the tagged window
\* pieces included) sum to L, each within 2 * EPSILON per opening.
C2_UntaggedPiecesSumToRemainder ==
    carved # <<>> =>
        \A rs \in RoomSides :
            LET seg == Parent(rs)
                ops == SideOpenings(rs)
                ps == SidePieces(rs)
                tol == 2 * Len(ops) * EPSILON
            IN  InteriorDisjoint(seg, ops) =>
                    /\ Abs(TotalLen(Untagged(ps)) - (SegLen(seg) - TotalWidth(ops))) <= tol
                    /\ Abs(TotalLen(ps) - SegLen(seg)) <= tol

\* two interior, disjoint openings were both carved into the north wall, which
\* kept plain pieces beside the two tagged ones
C2_Witness ==
    /\ carved # <<>>
    /\ LET rs == <<1, "north">>
           ops == SideOpenings(rs)
           ps == SidePieces(rs)
       IN  /\ Len(ops) = 2
           /\ InteriorDisjoint(Parent(rs), ops)
           /\ Len(Tagged(ps)) = 2
           /\ Len(Untagged(ps)) >= 2

\* C3: one door of width w centred strictly inside a segment of length L, both
\* remainders longer than EPSILON, yields exactly two pieces, the left and the
\* right remainder, of total length L - w; for horizontal and vertical segments.
C3_DoorSplitsInTwo ==
    door # <<>> =>
        LET seg == door[1].seg
            lo == p_min(seg)
            hi == p_max(seg)
            left_end == door[1].center - door[1].width \div 2
            right_start == door[1].center + door[1].width \div 2
        IN  (left_end - lo > EPSILON /\ hi - right_start > EPSILON) =>
                /\ Len(door_pieces) = 2
                /\ p_min(door_pieces[1]) = lo /\ p_max(door_pieces[1]) = left_end
                /\ p_min(door_pieces[2]) = right_start /\ p_max(door_pieces[2]) = hi
                /\ \A i \in 1 .. 2 : Collinear(seg, door_pieces[i])
                /\ Abs(TotalLen(door_pieces) - (SegLen(seg) - door[1].width)) <= EPSILON

\* a door was split out of a vertical wall, leaving two remainders
C3_Witness ==
    /\ door # <<>>
    /\ ~is_horizontal(door[1].seg.side)
    /\ door[1].center - door[1].width \div 2 - p_min(door[1].seg) > EPSILON
    /\ p_max(door[1].seg) - (door[1].center + door[1].width \div 2) > EPSILON
    /\ Len(door_pieces) = 2

-----------------------------------------------------------------------------
(* Claims on the stairwell and the slabs *)

\* rectangle inner lies within rectangle outer in x and in y
Contains(outer, inner) ==
    /\ inner.min_x >= outer.min_x /\ inner.min_y >= outer.min_y
    /\ inner.max_x <= outer.max_x /\ inner.max_y <= outer.max_y

StairwellPlaced == stairwell # <<>> /\ stairwell[1] # <<>>
TheStairwell == stairwell[1][1]

BuiltFloors == { f \in Floors : slabs[f] # <<>> }
SlabsOf(f) == slabs[f][1]

\* C4: the rectangle of the Stairwell generate_stairwell returns is fully contained
\* in the corridor rectangle it was given, in x and in y.
C4_StairwellInsideCorridor ==
    StairwellPlaced => Contains(corridor[1], TheStairwell.rect)

\* C5: with the stairwell placed once and its rectangle handed to the slab builder
\* of every floor, in any order, every floor and ceiling slab of every floor carries
\* that one rectangle as hole_rect.
C5_SameHoleOnEveryFloor ==
    \A f \in BuiltFloors :
        \A i \in 1 .. Len(SlabsOf(f)) :
            /\ SlabsOf(f)[i].hole_rect = StairwellRect
            /\ \A g \in BuiltFloors : \A j \in 1 .. Len(SlabsOf(g)) :
                  SlabsOf(g)[j].hole_rect = SlabsOf(f)[i].hole_rect

\* all three floors of a building with a stairwell have their two slabs
C5_Witness ==
    /\ StairwellPlaced
    /\ total_floors = 3
    /\ \A f \in Floors : slabs[f] # <<>> /\ Len(SlabsOf(f)) = 2

\* C6: the hole_rect of every slab that has one is fully contained in the slab's
\* footprint rect.
C6_HoleInsideFootprint ==
    \A f \in BuiltFloors :
        \A i \in 1 .. Len(SlabsOf(f)) :
            SlabsOf(f)[i].hole_rect # <<>> =>
                Contains(SlabsOf(f)[i].rect, SlabsOf(f)[i].hole_rect[1])

\* rect is the bounding rectangle of the room rectangles
IsBoundingRect(rect, rooms) ==
    /\ \A i \in 1 .. Len(rooms) : Contains(rect, rooms[i].rect)
    /\ \E i \in 1 .. Len(rooms) : rooms[i].rect.min_x = rect.min_x
    /\ \E i \in 1 .. Len(rooms) : rooms[i].rect.min_y = rect.min_y
    /\ \E i \in 1 .. Len(rooms) : rooms[i].rect.max_x = rect.max_x
    /\ \E i \in 1 .. Len(rooms) : rooms[i].rect.max_y = rect.max_y

\* C7: for a non-empty room collection and any floor_index the builder returns two
\* slabs, floor then ceiling, both over the bounding rectangle of the rooms, the
\* floor at floor_index * STORY_HEIGHT and the ceiling STORY_HEIGHT -
\* CEILING_THICKNESS above it.
C7_FloorThenCeiling ==
    \A f \in BuiltFloors :
        floor_rooms[f] # <<>> =>
            LET sl == SlabsOf(f)
            IN  /\ Len(sl) = 2
                /\ sl[1].kind = "floor" /\ sl[2].kind = "ceiling"
                /\ sl[1].rect = sl[2].rect
                /\ IsBoundingRect(sl[1].rect, floor_rooms[f])
                /\ sl[1].z = f * STORY_HEIGHT
                /\ sl[2].z = sl[1].z + STORY_HEIGHT - CEILING_THICKNESS

\* the slabs of an upper floor were built from three rooms
C7_Witness ==
    \E f \in BuiltFloors :
        f >= 1 /\ Len(floor_rooms[f]) = 3 /\ Len(SlabsOf(f)) = 2

\* C8: the Stairwell of a building of N floors spans floors 0 to N - 1 inclusive.
C8_StairwellSpansBuilding ==
    StairwellPlaced =>
        TheStairwell.floor_from = 0 /\ TheStairwell.floor_to = total_floors - 1

-----------------------------------------------------------------------------
(* Claims on the generators *)

SameKey ==
    /\ rng["A"] # <<>> /\ rng["B"] # <<>>
    /\ rng["A"][1].seed = rng["B"][1].seed
    /\ rng["A"][1].subsystem = rng["B"][1].subsystem

\* C10: two generators made independently by make_rng from the same (seed,
\* subsystem) return the same draws, and golden_split(length, .) the same results,
\* at every position, however the calls on the two are interleaved.
C10_SameKeySameStream ==
    SameKey =>
        \A k \in 1 .. Min(Len(out["A"]), Len(out["B"])) :
            draws["A"][k] = draws["B"][k] /\ out["A"][k] = out["B"][k]

\* both generators of one key were drawn from twice, and the results of golden_split
\* changed along the sequence
C10_Witness ==
    /\ SameKey
    /\ Len(out["A"]) >= 2 /\ Len(out["B"]) >= 2
    /\ out["A"][1] # out["A"][2]

\* the positions of g's results that have a successor
Successive(g) == 1 .. Len(out[g]) - 1

FinalSplitNum(r) ==
    length * (PHI_DEN * 25 * RNG_STATES + (r - RNG_STATES \div 2) * PHI_NUM)

FinalSplitDen == PHI_NUM * 25 * RNG_STATES

\* v is a grid multiple within 2% of length plus half a grid unit of length / PHI
NearGoldenPoint(v) ==
    /\ v % GRID_UNIT = 0
    /\ 50 * Abs(v * PHI_NUM - length * PHI_DEN) <= PHI_NUM * (length + 25 * GRID_UNIT)

\* C14: every value golden_split returns is a multiple of GRID_UNIT, no other grid
\* multiple is nearer to length / PHI + jitter than it, and the jitter of the draw is
\* at most 2% of length in absolute value; the x position of the slot
\* create_engineered_wall records is such a value.
C14_GridSnappedGoldenPoint ==
    /\ \A g \in Names : \A k \in 1 .. Len(out[g]) :
          /\ out[g][k] % GRID_UNIT = 0
          /\ 2 * Abs(out[g][k] * FinalSplitDen - FinalSplitNum(draws[g][k]))
                <= GRID_UNIT * FinalSplitDen
          /\ 50 * Abs(FinalSplitNum(draws[g][k]) - length * PHI_DEN * 25 * RNG_STATES)
                <= length * FinalSplitDen
          /\ NearGoldenPoint(out[g][k])
    /\ slots # <<>> => NearGoldenPoint(slots[1][1].pos[1])

\* a wall was made and its slot recorded, and golden_split has returned a value that
\* lies above the jittered point and one that lies below it
C14_Witness ==
    /\ slots # <<>>
    /\ \E g \in Names : \E j, k \in 1 .. Len(out[g]) :
          /\ out[g][j] * FinalSplitDen > FinalSplitNum(draws[g][j])
          /\ out[g][k] * FinalSplitDen < FinalSplitNum(draws[g][k])

-----------------------------------------------------------------------------
(* blenpc.py generate / batch and run_command.py run: lengths in units of 2.5 cm *)

MaxTasks == 2

\* value or default, for an optional value: Python's "x or d" and dict.get(key, d)
OrDefault(opt, default) == IF opt = <<>> THEN default ELSE opt[1]

\* the options of "blenpc generate": an option not given is None
CliWidths == {<<>>, <<480>>}
CliDepths == {<<>>, <<640>>}
CliFloors == {<<>>, <<2>>}
CliSeeds == {0, 123}
CliRoofs == {"flat", "gabled"}

\* the entries of batch.buildings in a batch spec file: a key not given is absent
Buildings ==
    { [width |-> <<>>, depth |-> <<>>, floors |-> <<>>, seed |-> <<>>, roof |-> <<>>],
      [width |-> <<480>>, depth |-> <<640>>, floors |-> <<2>>, seed |-> <<123>>,
       roof |-> <<"gabled">>] }

\* blenpc.py:84-88: the input_data of generate
generate_input(width, depth, floors, seed, roof) ==
    [command |-> "generate_building", seed |-> seed,
     spec |-> [width |-> OrDefault(width, 800), depth |-> OrDefault(depth, 640),
               floors |-> OrDefault(floors, 1), roof |-> roof,
               output_dir |-> "./output"]]

\* blenpc.py:111-120: the input_data of batch for the building b
batch_input(b) ==
    [command |-> "generate_building", seed |-> OrDefault(b.seed, 1000),
     spec |-> [width |-> OrDefault(b.width, 800), depth |-> OrDefault(b.depth, 640),
               floors |-> OrDefault(b.floors, 1), roof |-> OrDefault(b.roof, "flat"),
               output_dir |-> "./output"]]

\* test_math_engine.py:10-18: the input_data of the wall production test
create_wall_input(seed) ==
    [command |-> "create_wall", seed |-> seed,
     asset |-> [name |-> <<"MathWall_S", seed>>, width |-> 200,
                tags |-> <<"arch_wall", "math_verified">>]]

\* run_command.py:36-64: the create_wall handler, in a fresh interpreter; the
\* timestamp of the result is left out
create_wall(command_data) ==
    LET wall_data == command_data.asset
        made == create_engineered_wall(<<>>, wall_data.width, command_data.seed)
    IN  [asset_info |-> <<[name |-> wall_data.name, tags |-> wall_data.tags,
                           dimensions |-> [width |-> wall_data.width, height |-> 120,
                                           depth |-> 8],
                           slots |-> made.slots, seed |-> command_data.seed]>>,
         result |-> [status |-> "success",
                     result |-> [asset_name |-> wall_data.name,
                                 slots_count |-> Len(made.slots)]]]

\* run_command.py:29-73 for an input file that exists: the result written to the
\* output file, and the asset registered on the way, if any
run(command_data) ==
    IF command_data.command = "create_wall"
    THEN create_wall(command_data)
    ELSE [asset_info |-> <<>>,
          result |-> [status |-> "error",
                      message |-> <<"Unknown command", command_data.command>>]]

\* InventoryManager.register_asset: the record of the name is added or replaced
register_asset(inv, registered) ==
    IF registered = <<>> THEN inv
    ELSE { a \in inv : a.name # registered[1].name } \cup { registered[1] }

RECURSIVE RegisterAll(_, _)
RegisterAll(inv, tasks) ==
    IF tasks = <<>> THEN inv
    ELSE RegisterAll(register_asset(inv, run(Head(tasks)).asset_info), Tail(tasks))

\* blenpc.py:21-49 once for each input_data of tasks: the input file is written,
\* run() answers it, and the output file is read back
RunBlenderTasks(by, tasks) ==
    /\ Len(sent) + Len(tasks) <= MaxTasks
    /\ sent' = sent \o [i \in 1 .. Len(tasks) |-> [by |-> by, data |-> tasks[i]]]
    /\ answers' = answers \o [i \in 1 .. Len(tasks) |-> run(tasks[i]).result]
    /\ inventory' = RegisterAll(inventory, tasks)
    /\ UNCHANGED <<carve_vars, build_vars, rng_vars, plan_vars>>

CliInit ==
    /\ CarveIdle
    /\ BuildIdle
    /\ RngIdle
    /\ PlanIdle
    /\ sent = <<>>
    /\ answers = <<>>
    /\ inventory = {}

\* blenpc generate --width .. --depth .. --floors .. --seed .. --roof ..
Generate ==
    \E width \in CliWidths, depth \in CliDepths, floors \in CliFloors,
       seed \in CliSeeds, roof \in CliRoofs :
        RunBlenderTasks("generate", <<generate_input(width, depth, floors, seed, roof)>>)

\* blenpc batch --spec ..: one task for each building of the list, in order
Batch ==
    \E batch_list \in SeqsUpTo(Buildings, MaxTasks) :
        /\ batch_list # <<>>
        /\ RunBlenderTasks("batch", [i \in 1 .. Len(batch_list) |-> batch_input(batch_list[i])])

\* test_math_engine.py:8-30: a wall is produced for the seed 123, then for 456
WallProduction ==
    RunBlenderTasks("test", <<create_wall_input(123), create_wall_input(456)>>)

CliNext == Generate \/ Batch \/ WallProduction

SpecCli == CliInit /\ [][CliNext]_vars

-----------------------------------------------------------------------------
(* Claims on the runner *)

\* the answer is the rejection of the command as unknown
UnknownCommand(answer) ==
    answer.status = "error" /\ answer.message[1] = "Unknown command"

\* C15: every request the CLI's generate and batch commands send is answered with a
\* result whose status is success or error, and none of them is rejected as an
\* unknown command.
C15_CliRequestsDispatched ==
    \A k \in 1 .. Len(sent) :
        sent[k].by \in {"generate", "batch"} =>
            /\ answers[k].status \in {"success", "error"}
            /\ ~UnknownCommand(answers[k])

-----------------------------------------------------------------------------
(* Claims on the openings of a room-side, one by one *)

\* current_pieces of the room-side after its first i openings
PiecesAfter(rs, i) ==
    CarveSegment(Parent(rs), <<Parent(rs)>>, SubSeq(SideOpenings(rs), 1, i))

\* the test of windows.py:97 for the piece p
StrictlyInside(op, p) ==
    OpCoord(op) > p_min(p) + EPSILON /\ OpCoord(op) < p_max(p) - EPSILON

\* the i-th opening of the room-side meets no piece it is strictly inside of
Skipped(rs, i) ==
    LET ps == PiecesAfter(rs, i - 1)
    IN  \A j \in 1 .. Len(ps) : ~StrictlyInside(SideOpenings(rs)[i], ps[j])

Without(s, i) == SubSeq(s, 1, i - 1) \o SubSeq(s, i + 1, Len(s))

\* C16: an opening whose centre is not more than EPSILON inside any current piece of
\* its room-side leaves the piece list of the side as it was (same pieces, order and
\* tags), so that the side is returned as if the opening had not been supplied; the
\* segments of sides and of rooms without an opening are returned unchanged.
C16_SkippedOpeningChangesNothing ==
    carved # <<>> =>
        /\ \A rs \in RoomSides :
              LET seg == Parent(rs)
                  ops == SideOpenings(rs)
              IN  IF ops = <<>> THEN SidePieces(rs) = <<seg>>
                  ELSE \A i \in 1 .. Len(ops) :
                          Skipped(rs, i) =>
                              /\ PiecesAfter(rs, i) = PiecesAfter(rs, i - 1)
                              /\ SidePieces(rs) = CarveSegment(seg, <<seg>>, Without(ops, i))
        /\ \A r \in DOMAIN wall_segments :
              (\A i \in 1 .. Len(openings) : openings[i].room_id # r) =>
                  carved[1][r] = wall_segments[r]

\* a side was given two openings: the first was carved, and the second, centred
\* inside the wall, was skipped and left the tagged piece in place
C16_Witness ==
    /\ carved # <<>>
    /\ \E rs \in RoomSides :
          LET seg == Parent(rs)
              ops == SideOpenings(rs)
          IN  /\ Len(ops) = 2
              /\ ~Skipped(rs, 1)
              /\ Skipped(rs, 2)
              /\ OpCoord(ops[2]) > p_min(seg) /\ OpCoord(ops[2]) < p_max(seg)
              /\ Len(Tagged(SidePieces(rs))) = 1

\* the indices of the pieces of ps that carry the opening op as their tag
TaggedWith(ps, op) == { j \in 1 .. Len(ps) : ps[j].window_opening = <<op>> }

\* C17: once all openings of a room-side are processed, every opening that was
\* applied (its centre was strictly inside a piece at its turn) is the tag of exactly
\* one output piece, that piece spans [centre - width/2, centre + width/2], and no
\* untagged piece shorter than EPSILON is in the output.
C17_AppliedOpeningsTagged ==
    carved # <<>> =>
        \A rs \in RoomSides :
            LET ops == SideOpenings(rs)
                ps == SidePieces(rs)
            IN  /\ \A i \in 1 .. Len(ops) :
                      ~Skipped(rs, i) =>
                          /\ Cardinality(TaggedWith(ps, ops[i])) = 1
                          /\ \A j \in TaggedWith(ps, ops[i]) :
                                p_min(ps[j]) = OpLo(ops[i]) /\ p_max(ps[j]) = OpHi(ops[i])
                /\ \A j \in 1 .. Len(ps) :
                      ps[j].window_opening = NoOpening /\ ps[j] # Parent(rs)
                          => SegLen(ps[j]) >= EPSILON

\* the lists that hold the elements of s in another order (s itself included)
Reorderings(s) ==
    { [i \in 1 .. Len(s) |-> s[f[i]]] :
        f \in { g \in [1 .. Len(s) -> 1 .. Len(s)] :
                  \A i, j \in 1 .. Len(s) : i # j => g[i] # g[j] } }

\* every order of the openings of the room-side gives the pieces that were returned
SameInEveryOrder(rs) ==
    \A perm \in Reorderings(SideOpenings(rs)) :
        CarveSegment(Parent(rs), <<Parent(rs)>>, perm) = SidePieces(rs)

\* C18 as stated: for openings of one room-side that are mutually non-overlapping
\* and each fully interior to the wall segment, every permutation of the opening
\* list yields the same list of pieces.
C18_OrderIndependent ==
    carved # <<>> =>
        \A rs \in RoomSides :
            InteriorDisjoint(Parent(rs), SideOpenings(rs)) => SameInEveryOrder(rs)

\* every opening of the list is wider than 2 * EPSILON
WiderThanTolerance(ops) == \A i \in 1 .. Len(ops) : ops[i].width > 2 * EPSILON

\* C18: for openings of one room-side that are mutually non-overlapping, each fully
\* interior to the wall segment and each wider than 2 * EPSILON, every permutation
\* of the opening list yields the same list of pieces (extents, tags and order).
C18_OrderIndependentWideOpenings ==
    carved # <<>> =>
        \A rs \in RoomSides :
            LET ops == SideOpenings(rs)
            IN  InteriorDisjoint(Parent(rs), ops) /\ WiderThanTolerance(ops)
                    => SameInEveryOrder(rs)

\* two different wide openings, disjoint and interior, were supplied right to left
\* and both were carved
C18_Witness ==
    /\ carved # <<>>
    /\ \E rs \in RoomSides :
          LET ops == SideOpenings(rs)
          IN  /\ Len(ops) = 2
              /\ OpCoord(ops[1]) > OpCoord(ops[2])
              /\ InteriorDisjoint(Parent(rs), ops) /\ WiderThanTolerance(ops)
              /\ Len(Tagged(SidePieces(rs))) = 2

-----------------------------------------------------------------------------
(* generate_floorplan: lengths in units of 2.5 cm. At this scale EPSILON is less *)
(* than one unit: a length is at least MIN_ROOM_SIZE - EPSILON exactly when it   *)
(* is at least MIN_ROOM_SIZE, and an area is below EPSILON exactly when it is 0. *)

\* config.MIN_ROOM_SIZE, taken as 3.0 m
MIN_ROOM_SIZE == 120

\* footprints from 4 m to 30 m wide and 2 m to 30 m deep, with those of test_logic.py
PlanWidths == {160, 320, 480, 800, 1200}
PlanDepths == {80, 320, 640, 800, 1200}
PlanSeeds == {0, 42, 123, 456}
PlanFloors == {0, 1}

\* the zone left of the corridor
LeftZone(width, depth, corr) == Rect(0, 0, corr.min_x, depth)

\* the zone right of the corridor starts at the snapped value of the corridor's edge
RightZoneFromSnappedEdge(width, depth, corr) == Rect(snap(corr.max_x), 0, width, depth)

\* the zone right of the corridor
RightZone(width, depth, corr) == Rect(corr.max_x, 0, width, depth)

\* only the first half of a split is held against the minimum room size
SplitAllowedByFirstHalf(len, at) == at >= MIN_ROOM_SIZE

\* neither half of a span of len split at the offset at falls below the minimum
SplitAllowed(len, at) == at >= MIN_ROOM_SIZE /\ len - at >= MIN_ROOM_SIZE

\* binary space partitioning of rect: split along the longer axis at golden_split of
\* its extent, the generator state threaded through the first half, then the second;
\* the leaves in that order and the state left behind
RECURSIVE bsp(_, _)
bsp(rect, state) ==
    LET w == rect.max_x - rect.min_x
        h == rect.max_y - rect.min_y
        along_x == w >= h
        split == golden_split(IF along_x THEN w ELSE h, state)
        first == IF along_x
                 THEN Rect(rect.min_x, rect.min_y, rect.min_x + split.value, rect.max_y)
                 ELSE Rect(rect.min_x, rect.min_y, rect.max_x, rect.min_y + split.value)
        second == IF along_x
                  THEN Rect(rect.min_x + split.value, rect.min_y, rect.max_x, rect.max_y)
                  ELSE Rect(rect.min_x, rect.min_y + split.value, rect.max_x, rect.max_y)
    IN  IF SplitAllowed(IF along_x THEN w ELSE h, split.value)
        THEN LET a == bsp(first, split.state)
                 b == bsp(second, a.state)
             IN  [rects |-> a.rects \o b.rects, state |-> b.state]
        ELSE [rects |-> <<rect>>, state |-> split.state]

\* generate_floorplan(width, depth, seed, floor_index): a sizing error, or the rooms
\* (ids in leaf order, left zone first) and the corridor
generate_floorplan(width, depth, seed, floor_index) ==
    LET corr == CorridorOf([width |-> width, depth |-> depth,
                            corridor_width |-> CORRIDOR_WIDTH])
        left == LeftZone(width, depth, corr)
        right == RightZone(width, depth, corr)
        made == make_rng(<<>>, seed, "floorplan")
        a == bsp(left, made.heap[made.id])
        b == bsp(right, a.state)
        rects == a.rects \o b.rects
    IN  IF \/ depth < MIN_ROOM_SIZE
           \/ left.max_x - left.min_x < MIN_ROOM_SIZE
           \/ right.max_x - right.min_x < MIN_ROOM_SIZE
        THEN [error |-> <<"SizingError">>, rooms |-> <<>>, corridor |-> <<>>]
        ELSE [error |-> <<>>,
              rooms |-> [i \in 1 .. Len(rects) |-> Room(i - 1, rects[i])],
              corridor |-> <<corr>>]

PlanInit ==
    /\ CarveIdle
    /\ BuildIdle
    /\ RngIdle
    /\ CliIdle
    /\ plan_args \in { <<a>> : a \in [width : PlanWidths, depth : PlanDepths,
                                      seed : PlanSeeds, floor_index : PlanFloors] }
    /\ plan = <<>>

\* rooms, corridor = generate_floorplan(width, depth, seed, floor_index)
GenerateFloorplan ==
    /\ plan = <<>>
    /\ plan' = <<generate_floorplan(plan_args[1].width, plan_args[1].depth,
                                    plan_args[1].seed, plan_args[1].floor_index)>>
    /\ UNCHANGED <<carve_vars, build_vars, rng_vars, cli_vars, plan_args>>

PlanNext == GenerateFloorplan

SpecPlan == PlanInit /\ [][PlanNext]_vars

-----------------------------------------------------------------------------
(* Claims on the floorplan *)

\* generate_floorplan has returned rooms and a corridor
PlanReturned == plan # <<>> /\ plan[1].error = <<>>

\* the rectangles of the rooms, then the corridor's
AllRects ==
    [i \in 1 .. Len(plan[1].rooms) |-> plan[1].rooms[i].rect] \o plan[1].corridor

OverlapArea(r1, r2) ==
    Max(0, Min(r1.max_x, r2.max_x) - Max(r1.min_x, r2.min_x))
        * Max(0, Min(r1.max_y, r2.max_y) - Max(r1.min_y, r2.min_y))

\* C12: whenever generate_floorplan returns rooms, the x extent and the y extent of
\* every room are at least MIN_ROOM_SIZE - EPSILON.
C12_RoomsNotUndersized ==
    PlanReturned =>
        \A i \in 1 .. Len(plan[1].rooms) :
            LET rect == plan[1].rooms[i].rect
            IN  /\ rect.max_x - rect.min_x >= MIN_ROOM_SIZE
                /\ rect.max_y - rect.min_y >= MIN_ROOM_SIZE

\* a zone was split at least twice, and a room no larger than twice the minimum
\* came out of it
C12_Witness ==
    /\ PlanReturned
    /\ Len(plan[1].rooms) >= 4
    /\ \E i \in 1 .. Len(plan[1].rooms) :
          plan[1].rooms[i].rect.max_x - plan[1].rooms[i].rect.min_x < 2 * MIN_ROOM_SIZE

\* C13: in every floorplan generate_floorplan returns, any two distinct rectangles
\* among the rooms and the corridor have an intersection area below EPSILON.
C13_NoOverlappingRooms ==
    PlanReturned =>
        \A i, j \in 1 .. Len(AllRects) :
            i < j => OverlapArea(AllRects[i], AllRects[j]) = 0

\* the 30 m by 30 m floorplan of seed 123 was returned, with rooms on both sides of
\* the corridor that share an edge with it
C13_Witness ==
    /\ PlanReturned
    /\ plan_args[1].width = 1200 /\ plan_args[1].depth = 1200 /\ plan_args[1].seed = 123
    /\ \E i, j \in 1 .. Len(plan[1].rooms) :
          /\ plan[1].rooms[i].rect.max_x = plan[1].corridor[1].min_x
          /\ plan[1].rooms[j].rect.min_x = plan[1].corridor[1].max_x

====
